---- MODULE Spec2Model ----
(***************************************************************************)
(* A model of src/index.js (lines 1-592, the bot with rate limiting and    *)
(* conversation memory): the rate limiter, the conversation memory, the    *)
(* /ask command with its model call in flight, and result pagination.      *)
(*                                                                         *)
(* Time is counted in ticks of TickMs milliseconds.  The configured        *)
(* windows and ceilings of RATE_LIMIT_CONFIG and MEMORY_CONFIG are         *)
(* instantiated with small values that keep their order                    *)
(* (minute < hour < day, per-minute < per-hour <= per-day, per-user <      *)
(* global), so that every tier can be reached.                             *)
(***************************************************************************)
EXTENDS Integers, Sequences, FiniteSets, TLC

\* ------------------------------------------------------------ bounds
NumUsers == 2
MaxTime == 3
MaxCalls == 3
MaxInFlight == 2
TickMs == 1500

\* RATE_LIMIT_CONFIG (index.js:24-38), instantiated small; windows in ticks
GLOBAL_MAX_REQUESTS_PER_MINUTE == 2
GLOBAL_MAX_REQUESTS_PER_DAY == 4
USER_MAX_REQUESTS_PER_MINUTE == 1
USER_MAX_REQUESTS_PER_HOUR == 2
USER_MAX_REQUESTS_PER_DAY == 2
MINUTE_WINDOW == 1
HOUR_WINDOW == 2
DAY_WINDOW == 3

\* MEMORY_CONFIG (index.js:41-45), instantiated small.  MAX_HISTORY_LENGTH
\* is even in the source (10) and is kept even here.
HistoryPairs == 2
MAX_HISTORY_LENGTH == 2 * HistoryPairs
CONTEXT_WINDOW == 2
MAX_TOKENS_PER_MESSAGE == 1

Users == 1..NumUsers
\* lengths of the prompt after "/ask": too short, stored as is, truncated
PromptLens == {2, 3, 5}
\* lengths of the model's text: none ("No response." is used), short
ResponseLens == {0, 3}
LongPrompts == {5}
ShortResponses == {3}
NoResponseLen == 12

\* pagination: the page size (10 in index.js:577) and the ceiling on the
\* results of a search (500 in index.js:568), instantiated small
PageSize == 2
MaxResults == 5
ResultCounts == {0, 2, 3, 6}
\* for one user: result sets of one page, of two and of three pages with a
\* last page that is not full, and one that is too large
NavResultCounts == {0, 1, 3, 5, 6}
MaxSessions == 2
MaxTasks == 2

VARIABLES
  now,                \* Date.now(), in ticks
  FEATURE_FLAG_LLM,   \* process.env.FEATURE_FLAG_LLM === 'true'
  GEMINI_API_KEY,     \* whether process.env.GEMINI_API_KEY is set
  globalRateLimits,   \* [requestTimestamps, dailyCount, lastDailyReset]
  userRateLimits,     \* Map userId -> [requestTimestamps, dailyCount, lastReset]
  conversationMemory, \* Map userId -> [history, lastActivity]
  calls,              \* the admitted model calls that are in flight or were
                      \* admitted less than a minute ago, in order of admission;
                      \* "fresh" says that it was admitted less than a minute
                      \* ago, and "at" is then the instant of admission
  rolledBack,         \* the users one of whose model calls has failed
  last,               \* the last command or completion and the reply it sent
  paginationHandler,  \* startBot's variable: 0 for null, else the session whose
                      \* closure it holds
  sessions,           \* the closures made by paginateResults, in order of
                      \* creation: [userId, n (results.length), currentPage]
  tasks,              \* the /search and navigation handlers in flight; "over"
                      \* is the session that was the pagination handler when
                      \* a /search was received (0 for none)
  page,               \* the page whose rendering finished last
  search              \* the locals of one /search handler while it collects
                      \* its results: messageToSend, mediaIDs, season and the
                      \* pass of client.iterMessages that is running

avars == <<now, FEATURE_FLAG_LLM, GEMINI_API_KEY, globalRateLimits,
           userRateLimits, conversationMemory, calls, rolledBack>>
pvars == <<paginationHandler, sessions, tasks, page>>
svars == <<search>>
vars == <<now, FEATURE_FLAG_LLM, GEMINI_API_KEY, globalRateLimits,
          userRateLimits, conversationMemory, calls, rolledBack, last,
          paginationHandler, sessions, tasks, page, search>>

\* ------------------------------------------------------------ helpers
EmptyMap == [u \in {} |-> 0]
MapSet(M, k, v) == [x \in (DOMAIN M) \cup {k} |-> IF x = k THEN v ELSE M[x]]
Range(s) == {s[i] : i \in DOMAIN s}
MinOf(S) == CHOOSE m \in S : \A x \in S : m <= x
\* Math.floor in the place of Math.ceil: C6 tells the two apart
FloorDiv(a, b) == a \div b
\* Math.ceil(a / b) for a >= 0, b > 0
CeilDiv(a, b) == (a + b - 1) \div b
\* Array.prototype.pop: the array without its last element; [] stays []
Pop(s) == IF s = <<>> THEN s ELSE SubSeq(s, 1, Len(s) - 1)
\* slice(0, n) in the place of slice(-n): C9 tells the two apart
SliceFirst(s, n) == IF Len(s) <= n THEN s ELSE SubSeq(s, 1, n)
\* Array.prototype.slice(-n)
SliceLast(s, n) == IF Len(s) <= n THEN s ELSE SubSeq(s, Len(s) - n + 1, Len(s))
\* Date.toLocaleTimeString(): the time of day of an instant
TimeOfDay(t) == t % DAY_WINDOW

\* ------------------------------------------------------------ rate limiter
\* a filter with <= in the place of <: C7 tells the two apart
keepThroughWindow(timestamps, windowMs, t) ==
  SelectSeq(timestamps, LAMBDA ts : t - ts <= windowMs)

cleanOldTimestamps(timestamps, windowMs, t) ==
  SelectSeq(timestamps, LAMBDA ts : t - ts < windowMs)

\* the inline filters of checkUserRateLimit and getUserStats
inWindow(timestamps, windowMs, t) ==
  SelectSeq(timestamps, LAMBDA ts : t - ts < windowMs)

\* a reset that waits for more than a day: C21 tells it from resetGlobalDaily
resetGlobalLate(g, t) ==
  IF t - g.lastDailyReset > DAY_WINDOW
    THEN [g EXCEPT !.dailyCount = 0, !.lastDailyReset = t]
    ELSE g

resetGlobalDaily(g, t) ==
  IF t - g.lastDailyReset >= DAY_WINDOW
    THEN [g EXCEPT !.dailyCount = 0, !.lastDailyReset = t]
    ELSE g

\* a reset that does not look at the clock: C8 tells it from resetUserDaily
resetUserAlways(limits, t) ==
  [limits EXCEPT !.dailyCount = 0, !.lastReset = t]

resetUserDaily(limits, t) ==
  IF t - limits.lastReset >= DAY_WINDOW
    THEN [limits EXCEPT !.dailyCount = 0, !.lastReset = t]
    ELSE limits

\* resetDailyCounters: the global state and every known user's
resetDailyCounters(g, U, t) ==
  [g |-> resetGlobalDaily(g, t),
   U |-> [x \in DOMAIN U |-> resetUserDaily(U[x], t)]]

Allowed(g, U) == [allowed |-> TRUE, reason |-> "allowed", n |-> 0, g |-> g, U |-> U]
\* a denial that counts the request all the same: C15 tells it from Denied
DeniedButCounted(reason, n, g, U) ==
  [allowed |-> FALSE, reason |-> reason, n |-> n,
   g |-> [g EXCEPT !.dailyCount = @ + 1], U |-> U]

Denied(reason, n, g, U) ==
  [allowed |-> FALSE, reason |-> reason, n |-> n, g |-> g, U |-> U]

checkGlobalRateLimit(g0, U0, t) ==
  LET r == resetDailyCounters(g0, U0, t)
      g1 == r.g
      cleaned == cleanOldTimestamps(g1.requestTimestamps, MINUTE_WINDOW, t)
      g2 == [g1 EXCEPT !.requestTimestamps = cleaned]
  IN IF g1.dailyCount >= GLOBAL_MAX_REQUESTS_PER_DAY
       THEN Denied("global_daily", TimeOfDay(g1.lastDailyReset + DAY_WINDOW), g1, r.U)
     ELSE IF Len(cleaned) >= GLOBAL_MAX_REQUESTS_PER_MINUTE
       THEN Denied("global_minute",
                   CeilDiv((MinOf(Range(cleaned)) + MINUTE_WINDOW - t) * TickMs, 1000),
                   g2, r.U)
     ELSE Allowed(g2, r.U)

checkUserRateLimit(userId, g0, U0, t) ==
  LET r == resetDailyCounters(g0, U0, t)
      U1 == IF userId \in DOMAIN r.U
              THEN r.U
              ELSE MapSet(r.U, userId,
                     [requestTimestamps |-> <<>>, dailyCount |-> 0, lastReset |-> t])
      userLimits == U1[userId]
      cleaned == cleanOldTimestamps(userLimits.requestTimestamps, HOUR_WINDOW, t)
      U2 == [U1 EXCEPT ![userId].requestTimestamps = cleaned]
      inHour == inWindow(cleaned, HOUR_WINDOW, t)
      inMinute == inWindow(cleaned, MINUTE_WINDOW, t)
  IN IF userLimits.dailyCount >= USER_MAX_REQUESTS_PER_DAY
       THEN Denied("user_daily", TimeOfDay(userLimits.lastReset + DAY_WINDOW), r.g, U1)
     ELSE IF Len(inHour) >= USER_MAX_REQUESTS_PER_HOUR
       THEN Denied("user_hour",
                   CeilDiv((MinOf(Range(inHour)) + HOUR_WINDOW - t) * TickMs, 60000),
                   r.g, U2)
     ELSE IF Len(inMinute) >= USER_MAX_REQUESTS_PER_MINUTE
       THEN Denied("user_minute",
                   CeilDiv((MinOf(Range(inMinute)) + MINUTE_WINDOW - t) * TickMs, 1000),
                   r.g, U2)
     ELSE Allowed(r.g, U2)

\* a record that leaves the user's dailyCount alone: C4 tells it from
\* recordRequest
recordTimestampsOnly(userId, g, U, t) ==
  [g |-> [g EXCEPT !.requestTimestamps = Append(@, t), !.dailyCount = @ + 1],
   U |-> [U EXCEPT ![userId].requestTimestamps = Append(@, t)]]

\* a record that leaves the global scope alone: C20 tells it from
\* recordRequest
recordUserOnly(userId, g, U, t) ==
  [g |-> g,
   U |-> [U EXCEPT ![userId].requestTimestamps = Append(@, t),
                   ![userId].dailyCount = @ + 1]]

recordRequest(userId, g, U, t) ==
  [g |-> [g EXCEPT !.requestTimestamps = Append(@, t), !.dailyCount = @ + 1],
   U |-> [U EXCEPT ![userId].requestTimestamps = Append(@, t),
                   ![userId].dailyCount = @ + 1]]

\* a rollback of the global scope alone: C3 tells it from rollbackRequest
rollbackGlobalOnly(userId, g, U) ==
  [g |-> [g EXCEPT !.requestTimestamps = Pop(@), !.dailyCount = @ - 1],
   U |-> U]

\* the catch block of askGeminiAI (index.js:362-369)
rollbackRequest(userId, g, U) ==
  [g |-> [g EXCEPT !.requestTimestamps = Pop(@), !.dailyCount = @ - 1],
   U |-> IF userId \in DOMAIN U
           THEN [U EXCEPT ![userId].requestTimestamps = Pop(@),
                          ![userId].dailyCount = @ - 1]
           ELSE U]

\* ------------------------------------------------------------ conversation memory
truncateMessage(len) ==
  LET maxChars == MAX_TOKENS_PER_MESSAGE * 4
  IN IF len > maxChars THEN maxChars + 3 ELSE len

NewConversation(t) == [history |-> <<>>, lastActivity |-> t]

\* getConversationHistory: the map after the call; the history returned is
\* the user's history in it
getConversationHistory(userId, M, t) ==
  LET M1 == IF userId \in DOMAIN M THEN M ELSE MapSet(M, userId, NewConversation(t))
      conversation == M1[userId]
      inactiveTime == t - conversation.lastActivity
  IN IF inactiveTime > CONTEXT_WINDOW
       THEN [M1 EXCEPT ![userId].history = <<>>]
       ELSE M1

\* a push that stores every turn as the user's: C24 tells it from
\* addToConversationHistory
addToHistoryAsUser(userId, role, content, M, t) ==
  LET M1 == IF userId \in DOMAIN M THEN M ELSE MapSet(M, userId, NewConversation(t))
      turn == [role |-> "user",
               content |-> [content EXCEPT !.len = truncateMessage(@)],
               timestamp |-> t]
      pushed == Append(M1[userId].history, turn)
  IN [M1 EXCEPT ![userId].lastActivity = t,
                ![userId].history = IF Len(pushed) > MAX_HISTORY_LENGTH
                                      THEN SliceLast(pushed, MAX_HISTORY_LENGTH)
                                      ELSE pushed]

addToConversationHistory(userId, role, content, M, t) ==
  LET M1 == IF userId \in DOMAIN M THEN M ELSE MapSet(M, userId, NewConversation(t))
      turn == [role |-> role,
               content |-> [content EXCEPT !.len = truncateMessage(@)],
               timestamp |-> t]
      pushed == Append(M1[userId].history, turn)
  IN [M1 EXCEPT ![userId].lastActivity = t,
                ![userId].history = IF Len(pushed) > MAX_HISTORY_LENGTH
                                      THEN SliceLast(pushed, MAX_HISTORY_LENGTH)
                                      ELSE pushed]

clearConversationHistory(userId, M) ==
  IF userId \in DOMAIN M THEN [M EXCEPT ![userId].history = <<>>] ELSE M

\* ------------------------------------------------------------ the /ask command
Scopes == {0} \cup Users   \* 0 is the global scope
NoPre == [gts |-> <<>>, gdc |-> 0, uts |-> <<>>, udc |-> 0]
Pending == {i \in DOMAIN calls : calls[i].st = "pending"}
RemoveAt(s, i) == SubSeq(s, 1, i - 1) \o SubSeq(s, i + 1, Len(s))

Event(op, user, kind, n, clean) ==
  [op |-> op, user |-> user, kind |-> kind, n |-> n, clean |-> clean]

\* the instant a scope's daily period began; -1 for a user not yet known
LastResetOf(g, U, s) ==
  IF s = 0 THEN g.lastDailyReset
  ELSE IF s \in DOMAIN U THEN U[s].lastReset ELSE -1

DailyCountOf(g, U, s) ==
  IF s = 0 THEN g.dailyCount
  ELSE IF s \in DOMAIN U THEN U[s].dailyCount ELSE 0

\* a call in flight remembers the limiter's values from just before its
\* record (pre), and whether a check, record or rollback has run since (clean)
Disturb(cs) ==
  [i \in DOMAIN cs |->
     IF cs[i].st = "pending" THEN [cs[i] EXCEPT !.clean = FALSE] ELSE cs[i]]

\* messageHandler on a message that starts with /ask, whose prompt has
\* plen characters (index.js:459-470), up to the await of the model call
\* inside askGeminiAI (index.js:301-345)
AskCmd(userId, plen) ==
  LET globalCheck == checkGlobalRateLimit(globalRateLimits, userRateLimits, now)
      userCheck == checkUserRateLimit(userId, globalCheck.g, globalCheck.U, now)
      recorded == recordRequest(userId, userCheck.g, userCheck.U, now)
      memory == getConversationHistory(userId, conversationMemory, now)
      call == [user |-> userId, at |-> now, fresh |-> TRUE, st |-> "pending", plen |-> plen,
               pre |-> [gts |-> userCheck.g.requestTimestamps,
                        gdc |-> userCheck.g.dailyCount,
                        uts |-> userCheck.U[userId].requestTimestamps,
                        udc |-> userCheck.U[userId].dailyCount],
               clean |-> TRUE]
  IN /\ UNCHANGED <<pvars, svars>>
     /\ IF ~FEATURE_FLAG_LLM
          THEN \* not an /ask for this build: falls through to the fallback
               /\ last' = Event("ask", userId, "unknown_command", 0, FALSE)
               /\ UNCHANGED <<now, FEATURE_FLAG_LLM, GEMINI_API_KEY, globalRateLimits,
                              userRateLimits, conversationMemory, calls, rolledBack>>
        ELSE IF plen < 3
          THEN /\ last' = Event("ask", userId, "ask_me_something", 0, FALSE)
               /\ UNCHANGED <<now, FEATURE_FLAG_LLM, GEMINI_API_KEY, globalRateLimits,
                              userRateLimits, conversationMemory, calls, rolledBack>>
        ELSE IF ~GEMINI_API_KEY
          THEN /\ last' = Event("ask", userId, "disabled", 0, FALSE)
               /\ UNCHANGED <<now, FEATURE_FLAG_LLM, GEMINI_API_KEY, globalRateLimits,
                              userRateLimits, conversationMemory, calls, rolledBack>>
        ELSE IF ~globalCheck.allowed
          THEN /\ globalRateLimits' = globalCheck.g
               /\ userRateLimits' = globalCheck.U
               /\ calls' = Disturb(calls)
               /\ last' = Event("ask", userId, globalCheck.reason, globalCheck.n, FALSE)
               /\ UNCHANGED <<now, FEATURE_FLAG_LLM, GEMINI_API_KEY, conversationMemory,
                              rolledBack>>
        ELSE IF ~userCheck.allowed
          THEN /\ globalRateLimits' = userCheck.g
               /\ userRateLimits' = userCheck.U
               /\ calls' = Disturb(calls)
               /\ last' = Event("ask", userId, userCheck.reason, userCheck.n, FALSE)
               /\ UNCHANGED <<now, FEATURE_FLAG_LLM, GEMINI_API_KEY, conversationMemory,
                              rolledBack>>
        ELSE /\ Len(calls) < MaxCalls
             /\ Cardinality(Pending) < MaxInFlight
             /\ globalRateLimits' = recorded.g
             /\ userRateLimits' = recorded.U
             /\ conversationMemory' = memory
             /\ calls' = Append(Disturb(calls), call)
             /\ last' = Event("ask", userId, "admitted", 0, FALSE)
             /\ UNCHANGED <<now, FEATURE_FLAG_LLM, GEMINI_API_KEY, rolledBack>>

\* the model call of calls[i] returns a text of rlen characters
\* (index.js:352-358)
AskSucceed(i, rlen) ==
  LET c == calls[i]
      text == IF rlen = 0 THEN NoResponseLen ELSE rlen
      m1 == addToConversationHistory(c.user, "user", [len |-> c.plen],
                                     conversationMemory, now)
      m2 == addToConversationHistory(c.user, "assistant", [len |-> text], m1, now)
  IN /\ i \in Pending
     /\ UNCHANGED <<pvars, svars>>
     /\ conversationMemory' = m2
     /\ calls' = IF c.fresh
                   THEN [calls EXCEPT ![i] = [c EXCEPT !.st = "ok", !.plen = 0,
                                                       !.pre = NoPre, !.clean = FALSE]]
                   ELSE RemoveAt(calls, i)
     /\ last' = Event("done", c.user, "answer",
                       Len(conversationMemory[c.user].history), FALSE)
     /\ UNCHANGED <<now, FEATURE_FLAG_LLM, GEMINI_API_KEY, globalRateLimits,
                    userRateLimits, rolledBack>>

\* the model call of calls[i] throws (index.js:359-372)
AskFail(i) ==
  LET c == calls[i]
      rolled == rollbackRequest(c.user, globalRateLimits, userRateLimits)
  IN /\ i \in Pending
     /\ UNCHANGED <<pvars, svars>>
     /\ globalRateLimits' = rolled.g
     /\ userRateLimits' = rolled.U
     /\ calls' = RemoveAt(Disturb(calls), i)
     /\ rolledBack' = rolledBack \cup {c.user}
     /\ last' = Event("fail", c.user, "error", 0, c.clean)
     /\ UNCHANGED <<now, FEATURE_FLAG_LLM, GEMINI_API_KEY, conversationMemory>>

\* messageHandler on /clear (index.js:446-451)
ClearCmd(userId) ==
  /\ conversationMemory' = clearConversationHistory(userId, conversationMemory)
  /\ last' = Event("clear", userId, "cleared", 0, FALSE)
  /\ UNCHANGED <<now, FEATURE_FLAG_LLM, GEMINI_API_KEY, globalRateLimits,
                 userRateLimits, calls, rolledBack>>
  /\ UNCHANGED <<pvars, svars>>

\* the log of calls as the clock reaches t: answered calls admitted a minute
\* ago leave it, calls in flight that long keep only that they are old
Aged(cs, t) ==
  LET kept == SelectSeq(cs, LAMBDA c : c.st = "pending"
                                        \/ (c.fresh /\ t - c.at < MINUTE_WINDOW))
  IN [i \in DOMAIN kept |->
        IF kept[i].fresh /\ t - kept[i].at >= MINUTE_WINDOW
          THEN [kept[i] EXCEPT !.at = 0, !.fresh = FALSE] ELSE kept[i]]

\* the clock advances
Tick ==
  /\ now < MaxTime
  /\ now' = now + 1
  /\ calls' = Aged(calls, now + 1)
  /\ last' = Event("tick", 0, "none", 0, FALSE)
  /\ UNCHANGED <<FEATURE_FLAG_LLM, GEMINI_API_KEY, globalRateLimits,
                 userRateLimits, conversationMemory, rolledBack>>
  /\ UNCHANGED <<pvars, svars>>

\* ------------------------------------------------------------ pagination
NoPage == [to |-> 0, by |-> 0, sess |-> 0, items |-> <<>>, footer |-> 0]
totalPages(n) == CeilDiv(n, PageSize)
\* Math.max in the place of Math.min: C13 tells the two apart
Max(a, b) == IF a >= b THEN a ELSE b
Min(a, b) == IF a <= b THEN a ELSE b

\* a sendPage that leaves out the first item of the page: C19 tells it from
\* sendPage
sendPageLate(kind, by, sess, currentPage, n) ==
  [kind |-> kind, by |-> by, sess |-> sess, n |-> n,
   end |-> Min(currentPage * PageSize + PageSize, n),
   i |-> currentPage * PageSize + 2, items |-> <<currentPage * PageSize + 1>>,
   footer |-> 0, over |-> 0]

\* sendPage up to its first await: start and end are computed from
\* currentPage and the first item is handed to client.sendMessage; items
\* are numbered from 0 as in results[i]
sendPage(kind, by, sess, currentPage, n) ==
  LET start == currentPage * PageSize
      end == Min(start + PageSize, n)
  IN [kind |-> kind, by |-> by, sess |-> sess, n |-> n, end |-> end,
      i |-> start + 1, items |-> <<start>>, footer |-> 0, over |-> 0]

\* messageHandler on /search (index.js:474-490), up to the search itself;
\* private is false for a message of the bot itself, of a group or a channel,
\* and n is the number of results the search will keep
SearchCmd(userId, private, n) ==
  /\ Len(tasks) < MaxTasks
  /\ IF private
       THEN tasks' = Append(tasks, [kind |-> "search", by |-> userId, sess |-> 0,
                                    n |-> n, end |-> 0, i |-> 0, items |-> <<>>,
                                    footer |-> 0, over |-> paginationHandler])
       ELSE tasks' = tasks
  /\ last' = Event("search", userId, IF private THEN "searching" ELSE "ignored", 0, FALSE)
  /\ UNCHANGED <<paginationHandler, sessions, page>>
  /\ UNCHANGED <<avars, svars>>

\* the search of tasks[k] is over (index.js:553-577): no results, too many,
\* or paginateResults makes a closure and starts to send its first page
SearchDone(k) ==
  LET t == tasks[k]
      sess == Len(sessions) + 1
  IN /\ k \in DOMAIN tasks
     /\ t.kind = "search"
     /\ IF t.n = 0
          THEN /\ tasks' = RemoveAt(tasks, k)
               /\ last' = Event("search", t.by, "no_results", 0, FALSE)
               /\ UNCHANGED sessions
        ELSE IF t.n > MaxResults
          THEN /\ tasks' = RemoveAt(tasks, k)
               /\ last' = Event("search", t.by, "too_many", t.n, FALSE)
               /\ UNCHANGED sessions
        ELSE /\ Len(sessions) < MaxSessions
             /\ sessions' = Append(sessions, [userId |-> t.by, n |-> t.n,
                                              currentPage |-> 0])
             /\ tasks' = [tasks EXCEPT ![k] = [sendPage("first", t.by, sess, 0, t.n)
                                                EXCEPT !.over = t.over]]
             /\ last' = Event("search", t.by, "paginating", t.n, FALSE)
     /\ UNCHANGED <<paginationHandler, page>>
     /\ UNCHANGED <<avars, svars>>

\* the search of tasks[k] throws (client.iterMessages, index.js:497-501):
\* nothing in messageHandler catches it, so the handler ends there, rejected,
\* and sends nothing more
SearchFail(k) ==
  LET t == tasks[k]
  IN /\ k \in DOMAIN tasks
     /\ t.kind = "search"
     /\ tasks' = RemoveAt(tasks, k)
     /\ last' = Event("search", t.by, "uncaught", 0, FALSE)
     /\ UNCHANGED <<paginationHandler, sessions, page>>
     /\ UNCHANGED <<avars, svars>>

\* a handler that takes /next on the last page too: C11 tells it from navigate
navigatePastEnd(msgText, currentPage, n) ==
  IF msgText = "/next" /\ currentPage < totalPages(n) THEN currentPage + 1
  ELSE IF msgText = "/prev" /\ currentPage > 0 THEN currentPage - 1
  ELSE -1

\* a handler whose /next skips a page where it can: C12 tells it from navigate
navigateSkipping(msgText, currentPage, n) ==
  IF msgText = "/next" /\ currentPage < totalPages(n) - 1
    THEN Min(currentPage + 2, totalPages(n) - 1)
  ELSE IF msgText = "/prev" /\ currentPage > 0 THEN currentPage - 1
  ELSE -1

\* the handler returned by paginateResults (index.js:392-403): the new
\* currentPage, or -1 for "return false"
navigate(msgText, currentPage, n) ==
  IF msgText = "/next" /\ currentPage < totalPages(n) - 1 THEN currentPage + 1
  ELSE IF msgText = "/prev" /\ currentPage > 0 THEN currentPage - 1
  ELSE -1

\* messageHandler on /next or /prev (index.js:453-457), up to the first
\* await of sendPage; a command that is not handled falls through to the
\* unknown-command reply (index.js:582-583)
NavCmd(userId, msgText) ==
  LET sess == paginationHandler
      to == IF sess = 0 THEN -1
            ELSE navigate(msgText, sessions[sess].currentPage, sessions[sess].n)
  IN /\ IF to = -1
          THEN /\ last' = Event("nav", userId, "unknown_command", 0, FALSE)
               /\ UNCHANGED <<sessions, tasks>>
          ELSE /\ Len(tasks) < MaxTasks
               /\ sessions' = [sessions EXCEPT ![sess].currentPage = to]
               /\ tasks' = Append(tasks, sendPage("nav", userId, sess, to,
                                                  sessions[sess].n))
               /\ last' = Event("nav", userId, "handled", to, FALSE)
     /\ UNCHANGED <<paginationHandler, page>>
     /\ UNCHANGED <<avars, svars>>

\* sendPage of tasks[k] goes on after an await: the next item, or after the
\* last item the footer, which reads currentPage as it is now (index.js:382-387)
SendNext(k) ==
  LET t == tasks[k]
  IN /\ k \in DOMAIN tasks
     /\ t.kind \in {"first", "nav"}
     /\ t.footer = 0
     /\ tasks' = IF t.i < t.end
                   THEN [tasks EXCEPT ![k].items = Append(@, t.i), ![k].i = @ + 1]
                   ELSE [tasks EXCEPT ![k].footer = sessions[t.sess].currentPage + 1]
     /\ last' = Event("send", sessions[t.sess].userId,
                       IF t.i < t.end THEN "item" ELSE "footer", t.sess, FALSE)
     /\ UNCHANGED <<paginationHandler, sessions, page>>
     /\ UNCHANGED <<avars, svars>>

\* the footer of tasks[k] is sent and sendPage returns: after the first page
\* of a search, the closure becomes the pagination handler (index.js:577)
PageDone(k) ==
  LET t == tasks[k]
  IN /\ k \in DOMAIN tasks
     /\ t.kind \in {"first", "nav"}
     /\ t.footer # 0
     /\ paginationHandler' = IF t.kind = "first" THEN t.sess ELSE paginationHandler
     /\ tasks' = RemoveAt(tasks, k)
     /\ page' = [to |-> sessions[t.sess].userId, by |-> t.by, sess |-> t.sess,
                 items |-> t.items, footer |-> t.footer]
     /\ last' = Event("page", t.by, t.kind, t.footer, FALSE)
     /\ UNCHANGED sessions
     /\ UNCHANGED <<avars, svars>>

\* ------------------------------------------------------------ the search
\* the size below which a document is left out (index.js:505, 526)
SIZE_THRESHOLD == 52428800
NumDocs == 3      \* the document identifiers are 1..NumDocs
MaxYield == 4     \* the messages client.iterMessages yields to one /search
DocIds == 1..NumDocs
Sizes == {SIZE_THRESHOLD - 1, SIZE_THRESHOLD}

\* a message with no media or no document
NoDocument == [doc |-> FALSE, size |-> 0, id |-> 0, text |-> FALSE]

\* the messages the search provider may yield; "text" says whether
\* message.message holds the season asked for
Messages ==
  {NoDocument} \cup [doc : {TRUE}, size : Sizes, id : DocIds, text : BOOLEAN]

NoSearch ==
  [st |-> "idle", season |-> FALSE, passes |-> 0, pass |-> 0, yielded |-> 0,
   messageToSend |-> <<>>, mediaIDs |-> {}, small |-> FALSE, dup |-> FALSE]

\* a loop body that does not look at the size: C22 tells it from keepMessage
keepMessageAnySize(message, season, messageToSend, mediaIDs) ==
  IF ~message.doc THEN [messageToSend |-> messageToSend, mediaIDs |-> mediaIDs]
  ELSE IF message.id \notin mediaIDs /\ (~season \/ message.text)
    THEN [messageToSend |-> Append(messageToSend, message),
          mediaIDs |-> mediaIDs \cup {message.id}]
  ELSE [messageToSend |-> messageToSend, mediaIDs |-> mediaIDs]

\* the body of either loop of searchInTelegram for one message
\* (index.js:503-515, 524-536); season is whether a season is asked for
keepMessage(message, season, messageToSend, mediaIDs) ==
  IF ~message.doc THEN [messageToSend |-> messageToSend, mediaIDs |-> mediaIDs]
  ELSE IF message.size < SIZE_THRESHOLD
    THEN [messageToSend |-> messageToSend, mediaIDs |-> mediaIDs]
  ELSE IF message.id \notin mediaIDs
    THEN IF ~season
           THEN [messageToSend |-> Append(messageToSend, message),
                 mediaIDs |-> mediaIDs \cup {message.id}]
         ELSE IF message.text
           THEN [messageToSend |-> Append(messageToSend, message),
                 mediaIDs |-> mediaIDs \cup {message.id}]
         ELSE [messageToSend |-> messageToSend, mediaIDs |-> mediaIDs]
  ELSE [messageToSend |-> messageToSend, mediaIDs |-> mediaIDs]

\* client.iterMessages yields a message to the pass that is running; "small"
\* and "dup" remember that a document below the threshold, and one whose
\* identifier was already taken, have been yielded
IterMessage(message) ==
  LET kept == keepMessage(message, search.season, search.messageToSend, search.mediaIDs)
  IN /\ search.st = "running"
     /\ search.yielded < MaxYield
     /\ search' = [search EXCEPT
                     !.yielded = @ + 1,
                     !.messageToSend = kept.messageToSend,
                     !.mediaIDs = kept.mediaIDs,
                     !.small = @ \/ (message.doc /\ message.size < SIZE_THRESHOLD),
                     !.dup = @ \/ (message.doc /\ message.id \in search.mediaIDs)]
     /\ UNCHANGED <<avars, pvars, last>>

\* a loop of searchInTelegram ends and the next begins: the videos after the
\* documents (index.js:518), the query with dots after the query with
\* spaces (index.js:552-555)
PassEnd ==
  /\ search.st = "running"
  /\ search.pass < search.passes
  /\ search' = [search EXCEPT !.pass = @ + 1]
  /\ UNCHANGED <<avars, pvars, last>>

\* the last loop ends (index.js:557-577): no results, too many, or the
\* result set is handed to paginateResults
SearchEnd ==
  /\ search.st = "running"
  /\ search.pass = search.passes
  /\ search' = [search EXCEPT !.st =
                  IF Len(search.messageToSend) = 0 THEN "no_results"
                  ELSE IF Len(search.messageToSend) > MaxResults THEN "too_many"
                  ELSE "handed"]
  /\ UNCHANGED <<avars, pvars, last>>

Init ==
  /\ now = 0
  /\ FEATURE_FLAG_LLM \in BOOLEAN
  /\ GEMINI_API_KEY \in BOOLEAN
  /\ globalRateLimits = [requestTimestamps |-> <<>>, dailyCount |-> 0,
                         lastDailyReset |-> 0]
  /\ userRateLimits = EmptyMap
  /\ conversationMemory = EmptyMap
  /\ calls = <<>>
  /\ rolledBack = {}
  /\ last = Event("init", 0, "none", 0, FALSE)
  /\ paginationHandler = 0
  /\ sessions = <<>>
  /\ tasks = <<>>
  /\ page = NoPage
  /\ search = NoSearch

\* Two users send /ask with a prompt long enough to be truncated; the model
\* answers with a short text or fails.
Next ==
  \/ Tick
  \/ \E u \in Users : \E plen \in LongPrompts : AskCmd(u, plen)
  \/ \E i \in DOMAIN calls : \E rlen \in ShortResponses : AskSucceed(i, rlen)
  \/ \E i \in DOMAIN calls : AskFail(i)

Spec == Init /\ [][Next]_vars

\* One user sends /ask with prompts of every kind and /clear; the model
\* answers with a text, with none, or fails.
NextMemory ==
  \/ Tick
  \/ \E plen \in PromptLens : AskCmd(1, plen)
  \/ \E i \in DOMAIN calls : \E rlen \in ResponseLens : AskSucceed(i, rlen)
  \/ \E i \in DOMAIN calls : AskFail(i)
  \/ ClearCmd(1)

SpecMemory == Init /\ [][NextMemory]_vars

\* Two users send /search, /next and /prev; searches end and pages are sent.
NextPage ==
  \/ \E u \in Users : \E private \in BOOLEAN : \E n \in ResultCounts :
       SearchCmd(u, private, n)
  \/ \E k \in DOMAIN tasks : SearchDone(k)
  \/ \E k \in DOMAIN tasks : SearchFail(k)
  \/ \E u \in Users : \E msgText \in {"/next", "/prev"} : NavCmd(u, msgText)
  \/ \E k \in DOMAIN tasks : SendNext(k)
  \/ \E k \in DOMAIN tasks : PageDone(k)

SpecPage == Init /\ [][NextPage]_vars

\* One user sends /search, /next and /prev over result sets of every size.
NextNav ==
  \/ \E private \in BOOLEAN : \E n \in NavResultCounts : SearchCmd(1, private, n)
  \/ \E k \in DOMAIN tasks : SearchDone(k)
  \/ \E k \in DOMAIN tasks : SearchFail(k)
  \/ \E msgText \in {"/next", "/prev"} : NavCmd(1, msgText)
  \/ \E k \in DOMAIN tasks : SendNext(k)
  \/ \E k \in DOMAIN tasks : PageDone(k)

SpecNav == Init /\ [][NextNav]_vars

\* One /search collects its results: two loops for a query of one word, four
\* for a query with spaces (index.js:549-555), with or without a season.
InitSearch ==
  /\ now = 0
  /\ FEATURE_FLAG_LLM \in BOOLEAN
  /\ GEMINI_API_KEY \in BOOLEAN
  /\ globalRateLimits = [requestTimestamps |-> <<>>, dailyCount |-> 0,
                         lastDailyReset |-> 0]
  /\ userRateLimits = EmptyMap
  /\ conversationMemory = EmptyMap
  /\ calls = <<>>
  /\ rolledBack = {}
  /\ last = Event("init", 0, "none", 0, FALSE)
  /\ paginationHandler = 0
  /\ sessions = <<>>
  /\ tasks = <<>>
  /\ page = NoPage
  /\ \E season \in BOOLEAN : \E passes \in {2, 4} :
       search = [NoSearch EXCEPT !.st = "running", !.season = season,
                                 !.passes = passes, !.pass = 1]

NextSearch ==
  \/ \E message \in Messages : IterMessage(message)
  \/ PassEnd
  \/ SearchEnd

SpecSearch == InitSearch /\ [][NextSearch]_vars

\* ------------------------------------------------------------ the claims
MinuteCeiling(s) ==
  IF s = 0 THEN GLOBAL_MAX_REQUESTS_PER_MINUTE ELSE USER_MAX_REQUESTS_PER_MINUTE

\* the calls of a scope that were admitted less than a minute ago and have
\* been answered (so they were not, and will not be, rolled back)
Counting(s) ==
  {i \in DOMAIN calls : /\ calls[i].fresh
                        /\ calls[i].st = "ok"
                        /\ (s = 0 \/ calls[i].user = s)}

\* the number of entries of a timestamp sequence less than w before t
CountWithin(ts, w, t) == Cardinality({i \in DOMAIN ts : t - ts[i] < w})

UserTimestamps(U, u) == IF u \in DOMAIN U THEN U[u].requestTimestamps ELSE <<>>

\* the replies of askGeminiAI that come out of the two quota checks
DenialKinds == {"global_daily", "global_minute", "user_daily", "user_hour", "user_minute"}
CheckedKinds == DenialKinds \cup {"admitted"}

\* C1: a navigation command is resolved against the session of the user who
\* issued it: every page being sent for a /next or /prev belongs to the
\* session of the user who sent that command, and every page sent for one
\* went to that user.
C1_NavigationOwnSession ==
  /\ \A k \in DOMAIN tasks :
       tasks[k].kind = "nav" => sessions[tasks[k].sess].userId = tasks[k].by
  /\ page # NoPage => page.to = page.by

\* C2: in every scope, the admitted model calls that were not rolled back and
\* whose admission instants lie within a span shorter than the minute window
\* never outnumber the scope's per-minute ceiling.  (The calls counted here
\* were answered and were admitted less than a minute before now, so they lie
\* in one such span.)
C2_QuotaHoldsUnderRollback ==
  \A s \in Scopes : Cardinality(Counting(s)) <= MinuteCeiling(s)

\* C3 as stated: when a model call fails, the rollback leaves the global and
\* the user's dailyCount and requestTimestamps at the values they had just
\* before the call was recorded.
C3_RollbackRestoresPreCall ==
  [][\A i \in DOMAIN calls :
       AskFail(i) =>
         /\ globalRateLimits'.requestTimestamps = calls[i].pre.gts
         /\ globalRateLimits'.dailyCount = calls[i].pre.gdc
         /\ userRateLimits'[calls[i].user].requestTimestamps = calls[i].pre.uts
         /\ userRateLimits'[calls[i].user].dailyCount = calls[i].pre.udc]_vars

\* C3 amended: the same, for a call between whose record and rollback no
\* other quota check, record or rollback has run.
C3_RollbackRestoresUndisturbed ==
  [][\A i \in DOMAIN calls :
       (AskFail(i) /\ calls[i].clean) =>
         /\ globalRateLimits'.requestTimestamps = calls[i].pre.gts
         /\ globalRateLimits'.dailyCount = calls[i].pre.gdc
         /\ userRateLimits'[calls[i].user].requestTimestamps = calls[i].pre.uts
         /\ userRateLimits'[calls[i].user].dailyCount = calls[i].pre.udc]_vars

\* a model call has just failed and been rolled back with no other limiter
\* operation since its record, and the rollback removed a timestamp
C3_Witness ==
  /\ last.op = "fail" /\ last.clean
  /\ globalRateLimits.dailyCount >= 1

\* C4: in every step and for every scope, dailyCount is what it was (zero if
\* the scope's daily period began anew in the step) plus the records minus
\* the rollbacks of the step: so it always equals the records since the
\* scope's last daily reset minus the rollbacks since then.
C4_DailyCountIsRecordsMinusRollbacks ==
  [][\A s \in Scopes :
       LET began == LastResetOf(globalRateLimits', userRateLimits', s)
                      # LastResetOf(globalRateLimits, userRateLimits, s)
           mine == s = 0 \/ s = last'.user
           record == IF mine /\ last'.op = "ask" /\ last'.kind = "admitted" THEN 1 ELSE 0
           rollback == IF mine /\ last'.op = "fail" THEN 1 ELSE 0
       IN DailyCountOf(globalRateLimits', userRateLimits', s)
            = (IF began THEN 0 ELSE DailyCountOf(globalRateLimits, userRateLimits, s))
              + record - rollback]_vars

\* a request has just been recorded in a daily period that began after the
\* start, after an earlier request was rolled back
C4_Witness ==
  /\ last.op = "ask" /\ last.kind = "admitted"
  /\ globalRateLimits.lastDailyReset > 0
  /\ rolledBack # {}
  /\ globalRateLimits.dailyCount >= 1

\* C5: no dailyCount is ever negative.
C5_DailyCountNonNegative ==
  \A s \in Scopes : DailyCountOf(globalRateLimits, userRateLimits, s) >= 0

\* ---- the tiers of the limiter as the claims describe them, at the instant now
\* a scope's dailyCount as a check at now sees it: zero once the day is over
DailyLeft(s) ==
  LET started == LastResetOf(globalRateLimits, userRateLimits, s)
      count == IF s # 0 /\ s \notin DOMAIN userRateLimits THEN 0
               ELSE IF now - started >= DAY_WINDOW THEN 0
               ELSE DailyCountOf(globalRateLimits, userRateLimits, s)
  IN (IF s = 0 THEN GLOBAL_MAX_REQUESTS_PER_DAY ELSE USER_MAX_REQUESTS_PER_DAY) - count

GlobalMinuteCount == CountWithin(globalRateLimits.requestTimestamps, MINUTE_WINDOW, now)
UserHourCount(u) == CountWithin(UserTimestamps(userRateLimits, u), HOUR_WINDOW, now)
UserMinuteCount(u) == CountWithin(UserTimestamps(userRateLimits, u), MINUTE_WINDOW, now)

\* no tier other than the user's minute tier is exhausted
OtherTiersOpen(u) ==
  /\ DailyLeft(0) > 0
  /\ GlobalMinuteCount < GLOBAL_MAX_REQUESTS_PER_MINUTE
  /\ DailyLeft(u) > 0
  /\ UserHourCount(u) < USER_MAX_REQUESTS_PER_HOUR

\* the reply to a quota-checked /ask of u that the tiers call for
ExpectedKind(u) ==
  IF DailyLeft(0) <= 0 THEN "global_daily"
  ELSE IF GlobalMinuteCount >= GLOBAL_MAX_REQUESTS_PER_MINUTE THEN "global_minute"
  ELSE IF DailyLeft(u) <= 0 THEN "user_daily"
  ELSE IF UserHourCount(u) >= USER_MAX_REQUESTS_PER_HOUR THEN "user_hour"
  ELSE IF UserMinuteCount(u) >= USER_MAX_REQUESTS_PER_MINUTE THEN "user_minute"
  ELSE "admitted"

\* the step is an /ask of u that gets as far as the quota checks
Checked(u) == last'.op = "ask" /\ last'.user = u /\ last'.kind \in CheckedKinds

\* the queries of u admitted less than a minute ago
QueriesThisMinute(u) == {i \in DOMAIN calls : calls[i].user = u /\ calls[i].fresh}

\* the whole seconds until the oldest of them is a minute old
SecondsToWait(u) ==
  LET oldest == MinOf({calls[i].at : i \in QueriesThisMinute(u)})
  IN ((oldest + MINUTE_WINDOW - now) * TickMs + 999) \div 1000

C7_StrictWindows ==
  [][\A u \in Users :
       Checked(u) =>
         /\ last'.kind = ExpectedKind(u)
         /\ last'.kind = "admitted" =>
              /\ Len(globalRateLimits'.requestTimestamps) = GlobalMinuteCount + 1
              /\ Len(userRateLimits'[u].requestTimestamps) = UserHourCount(u) + 1]_vars

\* a user has just been admitted although a request of that user was recorded
\* exactly one minute window earlier
C7_Witness ==
  /\ last.op = "ask" /\ last.kind = "admitted"
  /\ \E i \in DOMAIN UserTimestamps(userRateLimits, last.user) :
       now - UserTimestamps(userRateLimits, last.user)[i] = MINUTE_WINDOW

\* ---- quota checks repeated without a record, at the instant now
GlobalChecks ==
  LET first == checkGlobalRateLimit(globalRateLimits, userRateLimits, now)
  IN <<first, checkGlobalRateLimit(first.g, first.U, now)>>

UserChecks(u) ==
  LET first == checkUserRateLimit(u, globalRateLimits, userRateLimits, now)
  IN <<first, checkUserRateLimit(u, first.g, first.U, now)>>

\* the second of two checks answers as the first and changes nothing
SameOutcome(checks) ==
  /\ checks[2].allowed = checks[1].allowed
  /\ checks[2].reason = checks[1].reason
  /\ checks[2].n = checks[1].n
  /\ checks[2].g = checks[1].g
  /\ checks[2].U = checks[1].U

\* a check leaves the in-window request counts of every scope as they were
SameWindowCounts(check) ==
  /\ CountWithin(check.g.requestTimestamps, MINUTE_WINDOW, now) = GlobalMinuteCount
  /\ \A u \in Users :
       /\ CountWithin(UserTimestamps(check.U, u), HOUR_WINDOW, now) = UserHourCount(u)
       /\ CountWithin(UserTimestamps(check.U, u), MINUTE_WINDOW, now) = UserMinuteCount(u)

\* the day of a scope is over at the instant now
DayOver(s) ==
  /\ s = 0 \/ s \in DOMAIN userRateLimits
  /\ now - LastResetOf(globalRateLimits, userRateLimits, s) >= DAY_WINDOW

SameDailyCounts(check) ==
  \A s \in Scopes :
    DailyCountOf(check.g, check.U, s) = DailyCountOf(globalRateLimits, userRateLimits, s)

SameDailyCountsUnlessDayOver(check) ==
  \A s \in Scopes :
    DailyCountOf(check.g, check.U, s) =
      IF DayOver(s) THEN 0 ELSE DailyCountOf(globalRateLimits, userRateLimits, s)

\* C8 as stated: in every state, checks repeated at one instant without a
\* record give the same outcome each time, and the first leaves the
\* dailyCount and the in-window request counts of every scope as they were.
C8_ChecksChangeNothing ==
  /\ SameOutcome(GlobalChecks)
  /\ SameWindowCounts(GlobalChecks[1]) /\ SameDailyCounts(GlobalChecks[1])
  /\ \A u \in Users :
       /\ SameOutcome(UserChecks(u))
       /\ SameWindowCounts(UserChecks(u)[1]) /\ SameDailyCounts(UserChecks(u)[1])

\* C8 amended: the same, except that the first check sets to zero the
\* dailyCount of every scope whose day is over.
C8_ChecksChangeOnlyExpiredDays ==
  /\ SameOutcome(GlobalChecks)
  /\ SameWindowCounts(GlobalChecks[1]) /\ SameDailyCountsUnlessDayOver(GlobalChecks[1])
  /\ \A u \in Users :
       /\ SameOutcome(UserChecks(u))
       /\ SameWindowCounts(UserChecks(u)[1])
       /\ SameDailyCountsUnlessDayOver(UserChecks(u)[1])

\* an /ask has just been denied, so its checks ran with no record after
\* them, in the instant in which the global day began anew
C8_Witness ==
  /\ last.op = "ask" /\ last.kind \in DenialKinds
  /\ globalRateLimits.lastDailyReset = now /\ now >= DAY_WINDOW
  /\ \E u \in DOMAIN userRateLimits : userRateLimits[u].dailyCount > 0
  /\ globalRateLimits.requestTimestamps # <<>>

\* ---- the conversation memory
HistoryOf(M, u) == IF u \in DOMAIN M THEN M[u].history ELSE <<>>
Roles == {"user", "assistant"}

\* C9: every stored history holds at most MAX_HISTORY_LENGTH turns; and
\* appending one turn to a history of that many turns gives a history of as
\* many turns: the old ones without the oldest, in their order, then the new.
C9_HistoryBounded ==
  \A u \in DOMAIN conversationMemory :
    LET h == conversationMemory[u].history
    IN /\ Len(h) <= MAX_HISTORY_LENGTH
       /\ \A role \in Roles : \A len \in PromptLens :
            LET h2 == addToConversationHistory(u, role, [len |-> len],
                                               conversationMemory, now)[u].history
            IN IF Len(h) < MAX_HISTORY_LENGTH
                 THEN /\ Len(h2) = Len(h) + 1
                      /\ \A j \in 1..Len(h) : h2[j] = h[j]
                 ELSE /\ Len(h2) = MAX_HISTORY_LENGTH
                      /\ \A j \in 1..(MAX_HISTORY_LENGTH - 1) : h2[j] = h[j + 1]
                      /\ h2[MAX_HISTORY_LENGTH].role = role
                      /\ h2[MAX_HISTORY_LENGTH].timestamp = now

\* an answer has just been appended to a history that was full, and the
\* turns kept are not all alike
C9_Witness ==
  /\ last.op = "done" /\ last.n = MAX_HISTORY_LENGTH
  /\ Len(HistoryOf(conversationMemory, last.user)) = MAX_HISTORY_LENGTH
  /\ HistoryOf(conversationMemory, last.user)[1].timestamp
       # HistoryOf(conversationMemory, last.user)[MAX_HISTORY_LENGTH].timestamp

\* C10: no turn older than an idle gap survives the access that follows the
\* gap: in a stored history no turn comes more than the context window
\* after the turn before it.
C10_NoTurnSurvivesIdleGap ==
  \A u \in DOMAIN conversationMemory :
    LET h == conversationMemory[u].history
    IN \A j \in 1..(Len(h) - 1) :
         h[j + 1].timestamp - h[j].timestamp <= CONTEXT_WINDOW

\* ---- pagination
\* the least number of pages of PageSize items that hold n items
PagesFor(n) == CHOOSE k \in 0..n : k * PageSize >= n /\ (k - 1) * PageSize < n

\* the page a session is on after msgText was issued until it was not handled
RECURSIVE UntilNotHandled(_, _, _)
UntilNotHandled(msgText, currentPage, n) ==
  IF navigate(msgText, currentPage, n) = -1 THEN currentPage
  ELSE UntilNotHandled(msgText, navigate(msgText, currentPage, n), n)

\* C11: a session starts at page 0 and has ceil(n / PageSize) pages; from
\* the page it is on, /next until not handled brings it to the last page,
\* and from there /prev until not handled brings it to page 0.
C11_NavigationRoundTrip ==
  /\ (last.op = "search" /\ last.kind = "paginating")
       => sessions[Len(sessions)].currentPage = 0
  /\ \A i \in DOMAIN sessions :
       LET n == sessions[i].n
           end == UntilNotHandled("/next", sessions[i].currentPage, n)
       IN /\ n >= 1
          /\ totalPages(n) = PagesFor(n)
          /\ end = PagesFor(n) - 1
          /\ UntilNotHandled("/prev", end, n) = 0

\* a /next was not handled on the third and last page of a session
C11_Witness ==
  /\ last.op = "nav" /\ last.kind = "unknown_command"
  /\ paginationHandler # 0
  /\ sessions[paginationHandler].currentPage = 2
  /\ totalPages(sessions[paginationHandler].n) = 3

\* C12: every session is on a page from 0 to totalPages - 1; a /next or
\* /prev that is not handled (as /next on the last page and /prev on page 0
\* are) changes no session and starts no page; a handled one moves the
\* session it acts on by exactly one page.
C12_PageInRange ==
  /\ [](\A i \in DOMAIN sessions :
          /\ 0 <= sessions[i].currentPage
          /\ sessions[i].currentPage < PagesFor(sessions[i].n)
          /\ navigate("/next", PagesFor(sessions[i].n) - 1, sessions[i].n) = -1
          /\ navigate("/prev", 0, sessions[i].n) = -1)
  /\ [][(last'.op = "nav" /\ last'.kind = "unknown_command")
          => (sessions' = sessions /\ tasks' = tasks /\ page' = page)]_vars
  /\ [][(last'.op = "nav" /\ last'.kind = "handled")
          => /\ \E d \in {-1, 1} :
                  sessions' = [sessions EXCEPT ![paginationHandler].currentPage = @ + d]
             /\ Len(tasks') = Len(tasks) + 1]_vars

\* a /prev has just been handled and has brought a session of three pages
\* back to page 0
C12_Witness ==
  /\ last.op = "nav" /\ last.kind = "handled"
  /\ paginationHandler # 0
  /\ sessions[paginationHandler].currentPage = 0
  /\ totalPages(sessions[paginationHandler].n) = 3

\* the items a, a + 1, ... up to but excluding b
ItemsFrom(a, b) == [j \in 1..(b - a) |-> a + j - 1]

\* page k of n items
PageSlice(k, n) ==
  ItemsFrom(k * PageSize, IF (k + 1) * PageSize < n THEN (k + 1) * PageSize ELSE n)

\* C13: a page that has been sent is a page k of its session's results, all
\* of its items in order, with a footer after them; the page that a handled
\* /next or /prev starts to send is the page the session is then on; and
\* the pages 0 .. totalPages - 1 of a session hold every result exactly once.
C13_PageIsSlice ==
  /\ page # NoPage =>
       LET n == sessions[page.sess].n
           k == page.items[1] \div PageSize
       IN /\ k < PagesFor(n)
          /\ page.items = PageSlice(k, n)
          /\ page.footer >= 1
  /\ (last.op = "nav" /\ last.kind = "handled") =>
       /\ last.n = sessions[paginationHandler].currentPage
       /\ tasks[Len(tasks)].items = <<last.n * PageSize>>
  /\ \A i \in DOMAIN sessions : \A j \in 0..(sessions[i].n - 1) :
       Cardinality({k \in 0..(totalPages(sessions[i].n) - 1) :
                      LET t == sendPage("nav", 1, i, k, sessions[i].n)
                      IN t.items[1] <= j /\ j < t.end}) = 1

\* the third page of five results, which holds one item, has been sent
C13_Witness ==
  /\ page.items = <<4>>
  /\ page.footer = 3
  /\ sessions[page.sess].n = 5

\* C14: a /next or /prev of a user who has no pagination session is
\* answered with a session-expired notice.
C14_StaleNavigationGetsNotice ==
  (last.op = "nav" /\ \A i \in DOMAIN sessions : sessions[i].userId # last.user)
    => last.kind = "session_expired"

\* ---- denied model requests
\* the step is an /ask that one of the two quota checks denies
DeniedAsk == last'.op = "ask" /\ last'.kind \in DenialKinds

\* a denial starts no model call, records nothing, leaves the in-window
\* request counts and the conversation memory as they were, and its reply
\* carries the seconds or minutes to wait or the time of the reset
DenialFrame ==
  /\ Len(calls') = Len(calls)
  /\ conversationMemory' = conversationMemory
  /\ Len(globalRateLimits'.requestTimestamps) <= Len(globalRateLimits.requestTimestamps)
  /\ CountWithin(globalRateLimits'.requestTimestamps, MINUTE_WINDOW, now) = GlobalMinuteCount
  /\ \A u \in Users :
       /\ CountWithin(UserTimestamps(userRateLimits', u), HOUR_WINDOW, now) = UserHourCount(u)
       /\ CountWithin(UserTimestamps(userRateLimits', u), MINUTE_WINDOW, now) = UserMinuteCount(u)
  /\ last'.kind \in {"global_minute", "user_hour", "user_minute"} => last'.n >= 1
  /\ last'.kind = "global_daily" =>
       last'.n = TimeOfDay(globalRateLimits'.lastDailyReset + DAY_WINDOW)
  /\ last'.kind = "user_daily" =>
       last'.n = TimeOfDay(userRateLimits'[last'.user].lastReset + DAY_WINDOW)

\* C15 as stated: a denied model request starts no call, records nothing and
\* leaves every dailyCount, the in-window counts and the history as they were.
C15_DenialChangesNothing ==
  [][DeniedAsk =>
       /\ DenialFrame
       /\ \A s \in Scopes :
            DailyCountOf(globalRateLimits', userRateLimits', s)
              = DailyCountOf(globalRateLimits, userRateLimits, s)]_vars

\* C15 amended: the same, except that the dailyCount of a scope whose day is
\* over is set to zero by the checks of the denied request.
C15_DenialChangesOnlyExpiredDays ==
  [][DeniedAsk =>
       /\ DenialFrame
       /\ \A s \in Scopes :
            DailyCountOf(globalRateLimits', userRateLimits', s)
              = IF DayOver(s) THEN 0
                ELSE DailyCountOf(globalRateLimits, userRateLimits, s)]_vars

\* a user has just been denied on the daily ceiling in the instant in which
\* the global day began anew, with no request recorded in the new day
C15_Witness ==
  /\ last.op = "ask" /\ last.kind = "user_daily"
  /\ now >= DAY_WINDOW /\ globalRateLimits.lastDailyReset = now
  /\ globalRateLimits.dailyCount = 0
  /\ userRateLimits[last.user].lastReset < now

\* C16: a model request made while the feature flag is off or the credential
\* is missing is answered with the disabled message.
C16_DisabledMessage ==
  (last.op = "ask" /\ (~FEATURE_FLAG_LLM \/ ~GEMINI_API_KEY))
    => last.kind = "disabled"

\* C17: no failure of the model call or of the search leaves its handler
\* uncaught: a failed model call is answered with the error message, and a
\* search ends with one of its replies.
C17_FailuresBecomeMessages ==
  /\ last.op = "fail" => last.kind = "error"
  /\ last.op = "search" => last.kind # "uncaught"

\* C18: once a user has started a new search, no /next or /prev of that
\* user is handled by the session the search is to replace: a handled
\* navigation never acts on a session that was the pagination handler when
\* a search of the same user, still running or still sending its first
\* page, was received.
C18_NewSearchReplacesSession ==
  (last.op = "nav" /\ last.kind = "handled") =>
    \A k \in DOMAIN tasks :
      ~(/\ tasks[k].kind \in {"search", "first"}
        /\ tasks[k].by = last.user
        /\ tasks[k].over = paginationHandler)

\* ---- the end of a search
\* the step ends the search of tasks[k] by making a session and starting to
\* send its first page
SessionCreated(k) ==
  /\ Len(sessions') = Len(sessions) + 1
  /\ sessions'[Len(sessions')] = [userId |-> tasks[k].by, n |-> tasks[k].n,
                                  currentPage |-> 0]
  /\ tasks'[k].kind = "first" /\ tasks'[k].sess = Len(sessions')
  /\ tasks'[k].items = <<0>>
  /\ last'.kind = "paginating"

\* the step ends it with no session and no page
NoSessionCreated(k) ==
  /\ sessions' = sessions
  /\ tasks' = RemoveAt(tasks, k)
  /\ page' = page /\ paginationHandler' = paginationHandler

\* C19 as stated: a search that ends makes a session and starts its first
\* page if and only if it has kept at least one result; with none it makes
\* no session and answers that there are no results.
C19_SessionIffNonEmpty ==
  [][\A k \in DOMAIN tasks :
       SearchDone(k) =>
         /\ tasks[k].n >= 1 => SessionCreated(k)
         /\ tasks[k].n = 0 => (NoSessionCreated(k) /\ last'.kind = "no_results")]_vars

\* C19 amended: if and only if it has kept at least one result and at most
\* MaxResults; with more it makes no session and answers that there are too
\* many.
C19_SessionIffNonEmptyAndNotTooMany ==
  [][\A k \in DOMAIN tasks :
       SearchDone(k) =>
         /\ (tasks[k].n >= 1 /\ tasks[k].n <= MaxResults) => SessionCreated(k)
         /\ tasks[k].n = 0 => (NoSessionCreated(k) /\ last'.kind = "no_results")
         /\ tasks[k].n > MaxResults
              => (NoSessionCreated(k) /\ last'.kind = "too_many")]_vars

\* a search that kept as many results as are allowed has just made a session
C19_Witness ==
  /\ last.op = "search" /\ last.kind = "paginating"
  /\ sessions[Len(sessions)].n = MaxResults
  /\ \E k \in DOMAIN tasks : tasks[k].kind = "first" /\ tasks[k].items = <<0>>

\* the step starts a model call
ModelCallStarts == Len(calls') > Len(calls)

\* the call that the step starts
StartedCall == calls'[Len(calls')]

\* what one record at the instant now makes of scope s: the timestamps still
\* within the scope's longest window followed by now, and the daily count
\* of the running day plus one
RecordedTimestamps(s) ==
  IF s = 0
    THEN Append(cleanOldTimestamps(globalRateLimits.requestTimestamps, MINUTE_WINDOW, now), now)
    ELSE Append(cleanOldTimestamps(UserTimestamps(userRateLimits, s), HOUR_WINDOW, now), now)

RecordedDailyCount(s) ==
  (IF DayOver(s) THEN 0 ELSE DailyCountOf(globalRateLimits, userRateLimits, s)) + 1

\* C20: a model call starts only in a step of one /ask in which, at one
\* instant, the global check and the per-user check both allow the request
\* (every tier has a free slot) and one record appends that instant to the
\* global and to the user's timestamp sequence and adds one to both daily
\* counts, no other user's limits changing; the slot is taken in the step
\* that starts the call, so the in-window counts a concurrent request is
\* checked against already include it.
C20_CallFollowsChecksAndRecord ==
  [][ModelCallStarts =>
        LET u == StartedCall.user
            globalCheck == checkGlobalRateLimit(globalRateLimits, userRateLimits, now)
            userCheck == checkUserRateLimit(u, globalCheck.g, globalCheck.U, now)
        IN /\ Len(calls') = Len(calls) + 1
           /\ StartedCall.st = "pending" /\ StartedCall.at = now /\ now' = now
           /\ last' = Event("ask", u, "admitted", 0, FALSE)
           /\ globalCheck.allowed /\ userCheck.allowed
           /\ ExpectedKind(u) = "admitted"
           /\ globalRateLimits'.requestTimestamps = RecordedTimestamps(0)
           /\ userRateLimits'[u].requestTimestamps = RecordedTimestamps(u)
           /\ globalRateLimits'.dailyCount = RecordedDailyCount(0)
           /\ userRateLimits'[u].dailyCount = RecordedDailyCount(u)
           /\ \A v \in Users \ {u} :
                UserTimestamps(userRateLimits', v) = UserTimestamps(userRateLimits, v)
           /\ CountWithin(globalRateLimits'.requestTimestamps, MINUTE_WINDOW, now)
                = GlobalMinuteCount + 1
           /\ CountWithin(userRateLimits'[u].requestTimestamps, MINUTE_WINDOW, now)
                = UserMinuteCount(u) + 1
           /\ CountWithin(userRateLimits'[u].requestTimestamps, HOUR_WINDOW, now)
                = UserHourCount(u) + 1]_vars

\* two model calls are in flight, the later one admitted in this instant on
\* the last free slot of the global minute, which a further request now
\* finds taken
C20_Witness ==
  /\ last.op = "ask" /\ last.kind = "admitted"
  /\ Cardinality(Pending) = 2
  /\ calls[Len(calls)].st = "pending" /\ calls[Len(calls)].at = now
  /\ calls[Len(calls)].fresh /\ calls[Len(calls)].user = last.user
  /\ GlobalMinuteCount = GLOBAL_MAX_REQUESTS_PER_MINUTE
  /\ \A u \in Users : ExpectedKind(u) = "global_minute"

\* ---- the daily reset
KnownScopes == {0} \cup DOMAIN userRateLimits

\* the limiter state (g, U) is the present one with every known scope whose
\* day is over set to dailyCount = 0 and lastReset = now, and with the
\* daily count and the reset instant of every other known scope as they are
ExpiredDaysReset(g, U) ==
  \A s \in KnownScopes :
    IF DayOver(s)
      THEN /\ DailyCountOf(g, U, s) = 0
           /\ LastResetOf(g, U, s) = now
      ELSE /\ DailyCountOf(g, U, s) = DailyCountOf(globalRateLimits, userRateLimits, s)
           /\ LastResetOf(g, U, s) = LastResetOf(globalRateLimits, userRateLimits, s)

\* the reply of a check is the daily denial of scope s
DailyDenialOf(check, s) ==
  ~check.allowed /\ check.reason = (IF s = 0 THEN "global_daily" ELSE "user_daily")

\* C21: the global check and the check of any user, made at the instant now,
\* leave every known scope whose day is over (now - lastReset >= DAY_WINDOW)
\* with dailyCount = 0 and lastReset = now, and every other known scope with
\* its dailyCount and lastReset; and a check made when the day of its scope
\* is over does not deny on that scope's daily ceiling. In the steps of the
\* bot: an /ask that reaches the checks when the day of a scope is over is
\* not denied on that scope's daily ceiling, and after it a scope whose day
\* was over began its day at now.
C21_ChecksResetExpiredDays ==
  /\ [](LET globalCheck == checkGlobalRateLimit(globalRateLimits, userRateLimits, now)
        IN /\ ExpiredDaysReset(globalCheck.g, globalCheck.U)
           /\ DayOver(0) => ~DailyDenialOf(globalCheck, 0)
           /\ \A u \in Users :
                LET userCheck == checkUserRateLimit(u, globalRateLimits, userRateLimits, now)
                    afterGlobal == checkUserRateLimit(u, globalCheck.g, globalCheck.U, now)
                IN /\ ExpiredDaysReset(userCheck.g, userCheck.U)
                   /\ ExpiredDaysReset(afterGlobal.g, afterGlobal.U)
                   /\ DayOver(u) => /\ ~DailyDenialOf(userCheck, u)
                                    /\ ~DailyDenialOf(afterGlobal, u))
  /\ [][\A u \in Users : Checked(u) =>
          /\ DayOver(0) => last'.kind # "global_daily"
          /\ DayOver(u) => last'.kind # "user_daily"
          /\ \A s \in KnownScopes :
               IF DayOver(s)
                 THEN LastResetOf(globalRateLimits', userRateLimits', s) = now
                 ELSE LastResetOf(globalRateLimits', userRateLimits', s)
                        = LastResetOf(globalRateLimits, userRateLimits, s)]_vars

\* a user admitted twice on the first day, with no call ever rolled back,
\* had used up the daily ceiling; the user is admitted in the instant in
\* which that day is over: the earlier of the two calls is still in flight,
\* the later is the timestamp of a minute ago
C21_Witness ==
  /\ last.op = "ask" /\ last.kind = "admitted"
  /\ now = DAY_WINDOW /\ rolledBack = {}
  /\ userRateLimits[last.user].lastReset = now
  /\ userRateLimits[last.user].dailyCount = 1
  /\ userRateLimits[last.user].requestTimestamps = <<now - 1, now>>
  /\ \E i \in Pending : calls[i].user = last.user /\ ~calls[i].fresh

\* ---- the result set of a search
\* C22: whatever the loops of one /search were given, every message collected
\* for pagination has a document of at least SIZE_THRESHOLD bytes, no two of
\* them have the same document identifier, and mediaIDs holds exactly their
\* identifiers; so it is of the result set handed to paginateResults.
C22_ResultSetFiltered ==
  LET results == search.messageToSend
  IN /\ \A i \in DOMAIN results :
          /\ results[i].doc
          /\ results[i].size >= SIZE_THRESHOLD
          /\ results[i].id \in search.mediaIDs
          /\ search.season => results[i].text
     /\ \A i, j \in DOMAIN results : results[i].id = results[j].id => i = j
     /\ Cardinality(search.mediaIDs) = Len(results)

\* a search of four loops hands over two results after its loops were given
\* a document below the threshold and one whose identifier had been taken
C22_Witness ==
  /\ search.st = "handed"
  /\ search.passes = 4 /\ search.small /\ search.dup
  /\ Len(search.messageToSend) = 2

\* ---- navigation commands that overlap
\* C23: the footer sent after the items of a page names the page of those
\* items, also when another /next or /prev of the same session was handled
\* while the page was being sent: a page that has been sent is the slice of
\* the page its footer names.
C23_FooterNamesThePageSent ==
  page # NoPage =>
    LET n == sessions[page.sess].n
        k == page.footer - 1
    IN /\ k < PagesFor(n)
       /\ page.items = PageSlice(k, n)

\* ---- the turns of a history
\* h2 is h with a user turn and then an assistant turn of the instant now
\* added at its end, the oldest turns dropped beyond MAX_HISTORY_LENGTH
GainsOneExchange(h, h2) ==
  LET n == Len(h2)
      dropped == Len(h) + 2 - n
  IN /\ n = (IF Len(h) + 2 > MAX_HISTORY_LENGTH THEN MAX_HISTORY_LENGTH ELSE Len(h) + 2)
     /\ h2[n - 1].role = "user" /\ h2[n - 1].timestamp = now
     /\ h2[n].role = "assistant" /\ h2[n].timestamp = now
     /\ \A j \in 1..(n - 2) : h2[j] = h[j + dropped]

\* C24: a stored history changes only by being emptied or, in the step in
\* which a model call of its user succeeds, by gaining the user turn and
\* right after it the assistant turn; a step in which a model call fails or
\* a request is denied leaves the conversation memory as it is; and in no
\* stored history do two turns of the same role follow one another.
C24_TurnsComeInPairs ==
  /\ [](\A u \in DOMAIN conversationMemory :
          LET h == conversationMemory[u].history
          IN \A j \in 1..(Len(h) - 1) : h[j].role # h[j + 1].role)
  /\ [][\A u \in Users :
          LET h == HistoryOf(conversationMemory, u)
              h2 == HistoryOf(conversationMemory', u)
          IN /\ h2 # h =>
                  \/ h2 = <<>>
                  \/ /\ last'.op = "done" /\ last'.user = u
                     /\ Len(calls') <= Len(calls)
                     /\ GainsOneExchange(h, h2)
             /\ (\E i \in DOMAIN calls : AskSucceed(i, 3) /\ calls[i].user = u)
                  => GainsOneExchange(h, h2)
             /\ (last'.op = "fail" \/ (last'.op = "ask" /\ last'.kind \in DenialKinds))
                  => conversationMemory' = conversationMemory]_vars

\* an answer has filled the history of a user while another model call of
\* that user, admitted before the answer came, is still in flight
C24_Witness ==
  /\ last.op = "done"
  /\ Len(HistoryOf(conversationMemory, last.user)) = MAX_HISTORY_LENGTH
  /\ HistoryOf(conversationMemory, last.user)[1].role = "user"
  /\ \E i \in Pending : calls[i].user = last.user

====
